---- MODULE Spec2Model ----
(***************************************************************************)
(* The result-grid controller of the image search frontend: the script and *)
(* template of ImageGrid (the copy kept in src/frontend/vite.config.js,    *)
(* lines 37-312, which extends src/frontend/src/components/ImageGrid.vue   *)
(* with removal and replacement, and exports through a canvas).            *)
(*                                                                         *)
(* The component runs on one event loop.  Every action below is one run of *)
(* a handler from one suspension point (await) to the next.                *)
(***************************************************************************)
EXTENDS Integers, Sequences, FiniteSets, TLC

(***************************************************************************)
(* Bounds of the exploration.                                              *)
(***************************************************************************)
\* perPage is 50 in the source (vite.config.js:52).  The model keeps the
\* name and explores a smaller page; nothing in the controller depends on
\* the magnitude, only on comparisons of images.length with perPage.
perPage == 3
\* the provider reports total = 0 or total = MaxTotal
MaxTotal == 1
\* number of changes of the props (searchQuery, page) after the mount
MaxChanges == 2
\* number of removeImageAt calls that pass the index check
MaxRemovals == 2
\* number of downloadZip calls
MaxExports == 2
\* concurrency is 6 in the source (vite.config.js:159).  The model keeps the
\* name and a smaller batch, so that a page of perPage slots takes more than
\* one batch, as a page of 50 does with batches of 6.
concurrency == 2
\* natural widths and heights of the source images: 1..MaxDim, 600 and 800
MaxDim == 9

\* the last page nextPage navigates to (the literal 10 of vite.config.js:103)
MaxPage == 10

Queries == {"", "cat", "dog"}

\* the pages the component is mounted on
StartPages == {1, MaxPage}

Dims == (1..MaxDim) \cup {600, 800}

None == "null"

VARIABLES
  searchQuery,      \* props.searchQuery
  page,             \* props.page
  images,           \* images.value: sequence of slots (items or placeholders)
  loading,          \* loading.value
  error,            \* error.value (None = null)
  total,            \* total.value
  nextFetchPage,    \* the overflow cursor
  removingIndexes,  \* removingIndexes.value
  fetches,          \* page-level fetches awaiting their response
  removals,         \* removeImageAt calls suspended at one of their awaits
  nChanges,         \* number of props changes so far (bounded by MaxChanges)
  nRemovals,        \* number of removals started so far (bounded by MaxRemovals)
  exports,          \* downloadZip calls suspended at one of their awaits
  saved,            \* the archive handed to the browser last (a.click())
  nExports,         \* number of downloadZip calls so far (bounded by MaxExports)
  drawn,            \* the arguments of the last ctx.drawImage call
  \* history variables (not read by any action's program state)
  slotOf,           \* identity of the display slot at each position of images
  returned,         \* number of items the fetch that filled images returned
  batch,            \* the collection and the indexes of the current group of removals
  displaced,        \* the removals started on a collection that has since been replaced
  last              \* the step taken last and what it produced

vars == <<searchQuery, page, images, loading, error, total, nextFetchPage,
          removingIndexes, fetches, removals, nChanges, nRemovals,
          exports, saved, nExports, drawn,
          slotOf, returned, batch, displaced, last>>

\* the state of the export, which the grid's handlers never touch
exportVars == <<exports, saved, nExports, drawn>>

(***************************************************************************)
(* Values.                                                                 *)
(***************************************************************************)
Min(a, b) == IF a < b THEN a ELSE b
Max(a, b) == IF a > b THEN a ELSE b

\* The k-th result of GET /search?query=q&page=p&per_page=n.
Item(q, p, n, k) ==
  [placeholder |-> FALSE, query |-> q, page |-> p, per_page |-> n, k |-> k]

\* { __placeholder: true }
Placeholder ==
  [placeholder |-> TRUE, query |-> "", page |-> 0, per_page |-> 0, k |-> 0]

\* data.results of a page of `count` items
Results(q, p, n, count) == [k \in 1..count |-> Item(q, p, n, k)]

\* splice with its deleteCount ignored: ins is inserted, nothing is deleted
Splice_InsertOnly(s, start, deleteCount, ins) ==
  LET st == IF start < 0 THEN Max(Len(s) + start, 0) ELSE Min(start, Len(s))
  IN  SubSeq(s, 1, st) \o ins \o SubSeq(s, st + 1, Len(s))

\* Array.prototype.splice(start, deleteCount, ...ins) on a 0-based start: a
\* negative start counts from the end, start is clamped to 0..length and
\* deleteCount to what is left after start.
Splice(s, start, deleteCount, ins) ==
  LET st == IF start < 0 THEN Max(Len(s) + start, 0) ELSE Min(start, Len(s))
      dc == Min(Max(deleteCount, 0), Len(s) - st)
  IN  SubSeq(s, 1, st) \o ins \o SubSeq(s, st + dc + 1, Len(s))

Range(s) == {s[i] : i \in DOMAIN s}

Live(s) == {i \in DOMAIN s : ~s[i].placeholder}

Step(op, out, n) == [op |-> op, out |-> out, n |-> n]

NoBatch == [base |-> <<>>, idx |-> <<>>]

NoArchive == [id |-> 0, query |-> "", page |-> 0, entries |-> <<>>,
              base |-> <<>>, failed |-> 0]

NoDraw == [iw |-> 0, ih |-> 0, side |-> 0, sx |-> 0, sy |-> 0]

\* the removals in progress, by id
Ids(rs) == {r.id : r \in rs}

(***************************************************************************)
(* The template: what is rendered and which controls accept a click.       *)
(***************************************************************************)
\* the v-if chain: error, then loading, then the empty notice, then the grid
GridVisible == error = None /\ ~loading /\ Len(images) > 0

\* :disabled of the two navigation buttons
PrevDisabled == page <= 1
NextDisabled == Len(images) < perPage

\* the slots that render an <img> with the dblclick handler
Clickable == {i \in 0..(Len(images) - 1) : ~images[i + 1].placeholder}

(***************************************************************************)
(* The state after setup: the refs, and the immediate run of the watcher.  *)
(***************************************************************************)
InitAt(pages) ==
  /\ searchQuery \in Queries
  /\ page \in pages
  /\ images = <<>>
  /\ loading = (searchQuery # "")
  /\ error = None
  /\ total = 0
  /\ nextFetchPage = page + 1
  /\ removingIndexes = {}
  /\ fetches = IF searchQuery = "" THEN {}
               ELSE {[id |-> 0, query |-> searchQuery, page |-> page]}
  /\ removals = {}
  /\ nChanges = 0
  /\ nRemovals = 0
  /\ exports = {}
  /\ saved = NoArchive
  /\ nExports = 0
  /\ drawn = NoDraw
  /\ slotOf = <<>>
  /\ returned = 0
  /\ batch = NoBatch
  /\ displaced = {}
  /\ last = Step("mount", "", 0)

Init == InitAt(StartPages)

(***************************************************************************)
(* fetchImages, from the call to its await of fetch(url): q and p are the  *)
(* props the watcher sees.                                                 *)
(***************************************************************************)
fetchImages(q, p) ==
  IF q = ""
    THEN /\ images' = <<>>
         /\ slotOf' = <<>>
         /\ returned' = 0
         /\ displaced' = Ids(removals)
         /\ UNCHANGED <<loading, error, fetches>>
    ELSE /\ loading' = TRUE
         /\ error' = None
         /\ fetches' = fetches \cup {[id |-> nChanges + 1, query |-> q, page |-> p]}
         /\ UNCHANGED <<images, slotOf, returned, displaced>>

\* The parent passes a new searchQuery; the watcher runs fetchImages.
SetQuery(q) ==
  /\ nChanges < MaxChanges
  /\ q # searchQuery
  /\ searchQuery' = q
  /\ nChanges' = nChanges + 1
  /\ fetchImages(q, page)
  /\ batch' = NoBatch
  /\ last' = Step("setQuery", "", 0)
  /\ UNCHANGED exportVars
  /\ UNCHANGED <<page, total, nextFetchPage, removingIndexes, removals, nRemovals>>

\* emit('update:page', p): the parent binds page, so the prop becomes p and
\* the watcher runs fetchImages.
EmitPage(op, p) ==
  /\ nChanges < MaxChanges
  /\ page' = p
  /\ nChanges' = nChanges + 1
  /\ fetchImages(searchQuery, p)
  /\ batch' = NoBatch
  /\ last' = Step(op, "emit", p)
  /\ UNCHANGED exportVars
  /\ UNCHANGED <<searchQuery, total, nextFetchPage, removingIndexes, removals, nRemovals>>

\* a navigation call that emits nothing
NoEmit(op) ==
  /\ last' = Step(op, "", 0)
  /\ UNCHANGED exportVars
  /\ UNCHANGED <<searchQuery, page, images, loading, error, total, nextFetchPage,
                 removingIndexes, fetches, removals, nChanges, nRemovals,
                 slotOf, returned, batch, displaced>>

\* nextPage without its ceiling: the guard lets page 10 through
nextPage_UpToCeiling ==
  IF page <= MaxPage THEN EmitPage("nextPage", page + 1) ELSE NoEmit("nextPage")

nextPage ==
  IF page < MaxPage THEN EmitPage("nextPage", page + 1) ELSE NoEmit("nextPage")

prevPage ==
  IF page > 1 THEN EmitPage("prevPage", page - 1) ELSE NoEmit("prevPage")

(***************************************************************************)
(* fetchImages, from the response of fetch(url) to the end.  f is the      *)
(* request as it was sent; the response is the provider's.                 *)
(***************************************************************************)
\* res.ok, no data.error: `count` results and the provider's total
FetchOk(f, count, tot) ==
  /\ images' = Results(f.query, f.page, perPage, count)
  /\ total' = tot
  /\ nextFetchPage' = page + 1
  /\ loading' = FALSE
  /\ slotOf' = [k \in 1..count |-> k]
  /\ returned' = count
  /\ last' = Step("fetch", "ok", 0)
  /\ UNCHANGED error

\* !res.ok ("HTTP"), data.error ("provider"), or fetch / res.json() threw
FetchFailed(f, kind) ==
  /\ error' = kind
  /\ images' = <<>>
  /\ loading' = FALSE
  /\ slotOf' = <<>>
  /\ returned' = 0
  /\ last' = Step("fetch", kind, 0)
  /\ UNCHANGED <<total, nextFetchPage>>

Failures == {"HTTP", "provider", "thrown"}

FetchResolve ==
  \E f \in fetches :
    /\ fetches' = fetches \ {f}
    /\ \/ \E count \in 0..perPage, tot \in {0, MaxTotal} : FetchOk(f, count, tot)
       \/ \E kind \in Failures : FetchFailed(f, kind)
    /\ batch' = NoBatch
    /\ displaced' = Ids(removals)
    /\ UNCHANGED <<searchQuery, page, removingIndexes, removals, nChanges, nRemovals>>
    /\ UNCHANGED exportVars

(***************************************************************************)
(* removeImageAt(index), in its three runs: up to the animation delay, up  *)
(* to the replacement fetch, and from the response to the end.             *)
(***************************************************************************)
\* slotOf after images.splice(index, 1, x): the slot at index keeps its
\* identity; a write past the end makes a new slot
SlotWrite(index, fresh) ==
  Splice(slotOf, index, 1,
         <<IF index < Len(slotOf) THEN slotOf[index + 1] ELSE fresh>>)

\* the index check, removingIndexes.add(index), and the wait for the animation
removeImageAt(index) ==
  /\ nRemovals < MaxRemovals
  /\ IF index < 0 \/ index >= Len(images)
       THEN /\ last' = Step("remove", "return", 0)
            /\ UNCHANGED <<removingIndexes, removals, nRemovals, batch>>
       ELSE /\ removingIndexes' = removingIndexes \cup {index}
            /\ removals' = removals \cup
                 {[id |-> nRemovals + 1, index |-> index, phase |-> "delay",
                   fetchPage |-> 0, query |-> "", slot |-> slotOf[index + 1]]}
            /\ nRemovals' = nRemovals + 1
            /\ batch' = IF removals = {}
                          THEN [base |-> images, idx |-> <<index>>]
                          ELSE IF batch # NoBatch /\ Cardinality(removals) = Len(batch.idx)
                          THEN [batch EXCEPT !.idx = Append(@, index)]
                          ELSE NoBatch
            /\ last' = Step("remove", "delay", 0)
  /\ UNCHANGED <<searchQuery, page, images, loading, error, total, nextFetchPage,
                 fetches, nChanges, slotOf, returned, displaced>>
  /\ UNCHANGED exportVars

\* after the delay: the placeholder, the total, and the replacement request
\* built from nextFetchPage and props.searchQuery as they are now
RemoveAfterDelay ==
  \E r \in removals :
    /\ r.phase = "delay"
    /\ images' = Splice(images, r.index, 1, <<Placeholder>>)
    /\ slotOf' = SlotWrite(r.index, -r.id)
    /\ total' = IF total > 0 THEN total - 1 ELSE total
    /\ removals' = (removals \ {r}) \cup
         {[r EXCEPT !.phase = "fetch", !.fetchPage = nextFetchPage,
                    !.query = searchQuery]}
    /\ last' = Step("remove", "placeholder", 0)
    /\ UNCHANGED <<searchQuery, page, loading, error, nextFetchPage, removingIndexes,
                   fetches, nChanges, nRemovals, returned, batch, displaced>>
    /\ UNCHANGED exportVars

\* res.ok and data.results[0] exists
ReplaceFound(r) ==
  /\ images' = Splice(images, r.index, 1, <<Item(r.query, r.fetchPage, 1, 1)>>)
  /\ slotOf' = SlotWrite(r.index, -r.id)
  /\ nextFetchPage' = r.fetchPage + 1

\* res.ok without a first result ("empty"), !res.ok ("HTTP"), or a throw
ReplaceMissing(r) ==
  /\ images' = Splice(images, r.index, 1, <<>>)
  /\ slotOf' = Splice(slotOf, r.index, 1, <<>>)
  /\ UNCHANGED nextFetchPage

RemoveResolve ==
  \E r \in removals :
    /\ r.phase = "fetch"
    /\ \/ ReplaceFound(r) /\ last' = Step("remove", "item", 0)
       \/ \E kind \in {"empty", "HTTP", "thrown"} :
            ReplaceMissing(r) /\ last' = Step("remove", "missing", 0)
    /\ removingIndexes' = removingIndexes \ {r.index}
    /\ removals' = removals \ {r}
    /\ displaced' = displaced \ {r.id}
    /\ UNCHANGED batch
    /\ UNCHANGED <<searchQuery, page, loading, error, total, fetches,
                   nChanges, nRemovals, returned>>
    /\ UNCHANGED exportVars

(***************************************************************************)
(* The center crop of one source image, as the item callback computes it   *)
(* between loadImage and canvasToBlob.                                     *)
(***************************************************************************)
\* Math.min(iw, ih)
CropSide(iw, ih) == Min(iw, ih)

\* the offset rounded up
CropOffset_Ceil(dim, side) == (dim - side + 1) \div 2

\* Math.floor((dim - side) / 2)
CropOffset(dim, side) == (dim - side) \div 2

\* ctx.drawImage(imageEl, sx, sy, side, side, 0, 0, size, size) for an image
\* of natural size iw by ih
drawImage(iw, ih) ==
  LET side == CropSide(iw, ih)
  IN  drawn' = [iw |-> iw, ih |-> ih, side |-> side,
                sx |-> CropOffset(iw, side), sy |-> CropOffset(ih, side)]

(***************************************************************************)
(* downloadZip, in its runs: from the call to the first await of           *)
(* Promise.all, the runs of the item callbacks (from onload to the await   *)
(* of canvasToBlob, and from the toBlob callback to the return, which for  *)
(* the last item of a batch goes on into the next batch), and from the     *)
(* resolved generateAsync to the end.  An export e keeps what the call has *)
(* in its locals: folderName (query, page), the loop index i, the slots of *)
(* the running batch with the state of their promises (out) and the await  *)
(* each callback is suspended at (at), and the entries of zip.  base and   *)
(* failed are history: the collection at the call, and the number of items *)
(* whose load or decode failed.                                            *)
(***************************************************************************)
\* the loop test and images.value.slice(i, i + concurrency).map(...): every
\* slot of the slice gets its loadImage(img.download_url) started
BatchAt(e, i) ==
  LET hi == Min(i + concurrency, Len(images))
  IN  IF i < Len(images)
        THEN [e EXCEPT !.i = i,
                       !.items = SubSeq(images, i + 1, hi),
                       !.out = [k \in 1..(hi - i) |-> "pending"],
                       !.at = [k \in 1..(hi - i) |-> "loadImage"]]
        ELSE [e EXCEPT !.i = i, !.items = <<>>, !.out = <<>>, !.at = <<>>,
                       !.phase = "generate"]

\* batchResults.forEach: one entry per result with a blob, named with
\* props.page as it is now and with r.index + 1
Written(e) ==
  LET ks == SelectSeq([k \in 1..Len(e.out) |-> k], LAMBDA k : e.out[k] = "blob")
  IN  [n \in 1..Len(ks) |->
         [page |-> page, index |-> e.i + ks[n], item |-> e.items[ks[n]]]]

\* the promise of the k-th item of the batch settles with res; when it was
\* the last one pending, Promise.all resolves and the loop goes on
Settled(e, k, res) ==
  LET e1 == [e EXCEPT !.out[k] = res,
                      !.at[k] = "end",
                      !.failed = IF res = "failed" /\ ~e.items[k].placeholder
                                   THEN @ + 1 ELSE @]
  IN  IF \E j \in DOMAIN e1.out : e1.out[j] = "pending"
        THEN e1
        ELSE BatchAt([e1 EXCEPT !.entries = @ \o Written(e1)], e1.i + concurrency)

\* img.onload: the callback resumes after await loadImage, computes the
\* crop of the iw by ih image, draws it and awaits canvasToBlob
ImageLoaded(e, k, iw, ih) ==
  /\ e.at[k] = "loadImage"
  /\ ~e.items[k].placeholder
  /\ exports' = (exports \ {e}) \cup {[e EXCEPT !.at[k] = "canvasToBlob"]}
  /\ drawImage(iw, ih)
  /\ last' = Step("export", "draw", 0)

\* An image of a running batch loads, with a natural size of D x D.  For a
\* placeholder slot img.download_url is undefined and loadImage requests
\* the URL "undefined", which is no image: that load can only fail.
ImageLoadsIn(D) ==
  \E e \in exports :
    /\ e.phase = "batch"
    /\ \E k \in DOMAIN e.out :
         /\ e.out[k] = "pending"
         /\ \E iw, ih \in D : ImageLoaded(e, k, iw, ih)
    /\ UNCHANGED <<searchQuery, page, images, loading, error, total, nextFetchPage,
                   removingIndexes, fetches, removals, nChanges, nRemovals,
                   saved, nExports, slotOf, returned, batch, displaced>>

ImageLoads == ImageLoadsIn(Dims)

\* toBlob called back with a blob: { index, blob, mime }
ItemTranscoded(e, k) ==
  /\ e.at[k] = "canvasToBlob"
  /\ exports' = (exports \ {e}) \cup {Settled(e, k, "blob")}
  /\ last' = Step("export", "blob", 0)
  /\ UNCHANGED error

\* the inner try without its catch: the rejection reaches Promise.all and
\* the catch of downloadZip
ItemFailed_Rethrown(e, k) ==
  /\ exports' = exports \ {e}
  /\ error' = "zip"
  /\ last' = Step("export", "failed", 0)

\* img.onerror (at loadImage) or toBlob called back with null, so that
\* blob.type throws (at canvasToBlob): the catch returns { index, blob: null }
ItemFailed(e, k) ==
  /\ exports' = (exports \ {e}) \cup {Settled(e, k, "failed")}
  /\ last' = Step("export", "failed", 0)
  /\ UNCHANGED error

\* one item promise of a running batch settles
ImageSettles ==
  \E e \in exports :
    /\ e.phase = "batch"
    /\ \E k \in DOMAIN e.out :
         /\ e.out[k] = "pending"
         /\ ItemTranscoded(e, k) \/ ItemFailed(e, k)
    /\ UNCHANGED <<searchQuery, page, images, loading, total, nextFetchPage,
                   removingIndexes, fetches, removals, nChanges, nRemovals,
                   saved, nExports, drawn, slotOf, returned, batch, displaced>>

downloadZip ==
  /\ nExports < MaxExports
  /\ IF Len(images) = 0
       THEN /\ last' = Step("export", "return", 0)
            /\ UNCHANGED <<error, exports, nExports>>
       ELSE /\ error' = None
            /\ exports' = exports \cup
                 {BatchAt([id |-> nExports + 1, query |-> searchQuery, page |-> page,
                           i |-> 0, items |-> <<>>, out |-> <<>>, at |-> <<>>,
                           entries |-> <<>>,
                           phase |-> "batch", base |-> images, failed |-> 0], 0)}
            /\ nExports' = nExports + 1
            /\ last' = Step("export", "start", 0)
  /\ UNCHANGED <<searchQuery, page, images, loading, total, nextFetchPage,
                 removingIndexes, fetches, removals, nChanges, nRemovals,
                 saved, drawn, slotOf, returned, batch, displaced>>

\* a.download = folderName + ".zip", a.click()
Archive(e) ==
  [id |-> e.id, query |-> e.query, page |-> e.page, entries |-> e.entries,
   base |-> e.base, failed |-> e.failed]

\* zip.generateAsync resolved: the archive is saved
GenerateSaved(e) ==
  /\ saved' = Archive(e)
  /\ last' = Step("export", "saved", e.id)
  /\ UNCHANGED error

\* zip.generateAsync (or the save) threw: the catch of downloadZip
GenerateThrown(e) ==
  /\ error' = "zip"
  /\ last' = Step("export", "thrown", e.id)
  /\ UNCHANGED saved

Generate ==
  \E e \in exports :
    /\ e.phase = "generate"
    /\ exports' = exports \ {e}
    /\ GenerateSaved(e) \/ GenerateThrown(e)
    /\ UNCHANGED <<searchQuery, page, images, loading, total, nextFetchPage,
                   removingIndexes, fetches, removals, nChanges, nRemovals,
                   nExports, drawn, slotOf, returned, batch, displaced>>

(***************************************************************************)
(* The component as the user drives it: a click reaches a handler only on  *)
(* a control the template renders and enables.                             *)
(***************************************************************************)
ClickNext == GridVisible /\ ~NextDisabled /\ nextPage
ClickPrev == GridVisible /\ ~PrevDisabled /\ prevPage
DblClick == GridVisible /\ \E i \in Clickable : removeImageAt(i)
ChangeQuery == \E q \in Queries : SetQuery(q)
\* the export button is part of the grid branch; :disabled as in the template
ExportDisabled == Len(images) = 0 \/ loading
ClickExport == GridVisible /\ ~ExportDisabled /\ downloadZip
\* the first export of the session
ClickExportOnce == nExports = 0 /\ ClickExport

Next ==
  \/ ChangeQuery
  \/ ClickNext
  \/ ClickPrev
  \/ DblClick
  \/ ClickExport
  \/ FetchResolve
  \/ RemoveAfterDelay
  \/ RemoveResolve
  \/ ImageLoads
  \/ ImageSettles
  \/ Generate

Spec == Init /\ [][Next]_vars

(***************************************************************************)
(* The handlers called in any state and with any index: every behaviour of *)
(* Spec is one of SpecHandlers.                                            *)
(***************************************************************************)
CallNext == nextPage
CallPrev == prevPage
CallRemove == \E i \in (-1)..perPage : removeImageAt(i)
CallExport == downloadZip

NextHandlers ==
  \/ ChangeQuery
  \/ CallNext
  \/ CallPrev
  \/ CallRemove
  \/ CallExport
  \/ FetchResolve
  \/ RemoveAfterDelay
  \/ RemoveResolve
  \/ ImageLoads
  \/ ImageSettles
  \/ Generate

SpecHandlers == Init /\ [][NextHandlers]_vars

(***************************************************************************)
(* The parts of Next that the claims are checked on.  Each is Next without *)
(* some of its disjuncts, or with a disjunct narrowed, so each of their    *)
(* behaviours is one of the component's.                                   *)
(*                                                                         *)
(* The grid without its export: queries, navigation, removals.             *)
(***************************************************************************)
NextGrid ==
  \/ ChangeQuery
  \/ ClickNext
  \/ ClickPrev
  \/ DblClick
  \/ FetchResolve
  \/ RemoveAfterDelay
  \/ RemoveResolve

SpecGrid == Init /\ [][NextGrid]_vars

(***************************************************************************)
(* Navigation alone, mounted on any page of 1..MaxPage: the props change,   *)
(* the page-level fetches resolve, nextPage and prevPage are called in any *)
(* state, nothing is removed.                                              *)
(***************************************************************************)
NextNav ==
  \/ ChangeQuery
  \/ CallNext
  \/ CallPrev
  \/ FetchResolve

InitNav == InitAt(1..MaxPage)

SpecNav == InitNav /\ [][NextNav]_vars

(***************************************************************************)
(* The grid with its export, mounted on page 1; the images that load are   *)
(* photos of 800 by 600 or 600 by 800.                                     *)
(*   SpecExport: exports are started whenever the button accepts a click,  *)
(*     also during a running export, on the collection of the mount.       *)
(*   SpecExportNav: one export, while the user navigates between pages.    *)
(*   SpecExportFair: one export and one forward navigation, every image    *)
(*     load and generateAsync settling.                                    *)
(*   SpecExportRemove: one export, while items are removed and replaced.   *)
(***************************************************************************)
InitFirst == InitAt({1})

PhotoDims == {600, 800}

PhotoLoads ==
  ImageLoadsIn(PhotoDims) /\ drawn'.iw # drawn'.ih

NextExport ==
  \/ ClickExport
  \/ FetchResolve
  \/ PhotoLoads
  \/ ImageSettles
  \/ Generate

SpecExport == InitFirst /\ [][NextExport]_vars

NextExportNav ==
  \/ ClickNext
  \/ ClickPrev
  \/ ClickExportOnce
  \/ FetchResolve
  \/ PhotoLoads
  \/ ImageSettles
  \/ Generate

SpecExportNav == InitFirst /\ [][NextExportNav]_vars

\* one export and one change of page, in any order
ClickNextOnce == nChanges = 0 /\ ClickNext

NextExportFair ==
  \/ ClickNextOnce
  \/ ClickExportOnce
  \/ FetchResolve
  \/ PhotoLoads
  \/ ImageSettles
  \/ Generate

\* every image load settles (onload or onerror fires) and generateAsync
\* settles: the browser and JSZip complete what they were handed
SpecExportFair ==
  /\ InitFirst
  /\ [][NextExportFair]_vars
  /\ WF_vars(ImageSettles)
  /\ WF_vars(Generate)

NextExportRemove ==
  \/ DblClick
  \/ ClickExportOnce
  \/ FetchResolve
  \/ RemoveAfterDelay
  \/ RemoveResolve
  \/ PhotoLoads
  \/ ImageSettles
  \/ Generate

SpecExportRemove == InitFirst /\ [][NextExportRemove]_vars

(***************************************************************************)
(* Removals and page-level fetches alone, mounted on page 1: nextPage is   *)
(* called once, in any state (so that two page-level fetches may overlap), *)
(* removeImageAt is called in any state and with any index, the delays end *)
(* and the responses arrive in any order.                                  *)
(***************************************************************************)
CallNextOnce == nChanges = 0 /\ CallNext

NextRemove ==
  \/ CallNextOnce
  \/ CallRemove
  \/ FetchResolve
  \/ RemoveAfterDelay
  \/ RemoveResolve

SpecRemove == InitFirst /\ [][NextRemove]_vars

(***************************************************************************)
(* One export of the collection of the mount, its images loading with      *)
(* every pair of natural sizes in Dims.                                    *)
(***************************************************************************)
NextCrop ==
  \/ ClickExportOnce
  \/ FetchResolve
  \/ ImageLoads
  \/ ImageSettles
  \/ Generate

SpecCrop == InitFirst /\ [][NextCrop]_vars

(***************************************************************************)
(* The claims.                                                             *)
(***************************************************************************)
\* the request f was sent for other props than the current ones
Stale(f) == <<f.query, f.page>> # <<searchQuery, page>>

\* the step is the resolution of the page-level fetch f
Resolves(f) == f \in fetches /\ fetches' = fetches \ {f}

StaleFetchInert ==
  \A f \in fetches :
    Resolves(f) /\ Stale(f) =>
      images' = images /\ total' = total /\ error' = error

\* with no fetch pending (and no removal ever started) every item shown is a
\* result of the request for the current (searchQuery, page)
ShowsLatest ==
  fetches = {} /\ nRemovals = 0 =>
    \A i \in DOMAIN images :
      images[i].query = searchQuery /\ images[i].page = page

\* C1: a page-level fetch that resolves after the props have moved on from
\* the (query, page) it was sent for changes neither images, total nor error,
\* and once every fetch has resolved images holds the result for the latest
\* (query, page).
C1_StaleFetchDiscarded == [][StaleFetchInert]_vars /\ []ShowsLatest

\* two removals at different indexes, both started before either replacement
\* fetch resolved and with no page-level fetch in between, have both completed
PairDone ==
  /\ removals = {}
  /\ batch # NoBatch
  /\ Len(batch.idx) = 2
  /\ batch.idx[1] # batch.idx[2]

\* C2: after removeImageAt(i) and removeImageAt(j), i # j, both started
\* before either replacement resolved, the collection has between (original
\* live count - 2) and (original live count) live items, no item appears
\* twice, and every item that was not removed is still present.
C2_PairOfRemovals ==
  PairDone =>
    /\ Cardinality(Live(images)) >= Cardinality(Live(batch.base)) - 2
    /\ Cardinality(Live(images)) <= Cardinality(Live(batch.base))
    /\ \A i, j \in Live(images) : i # j => images[i] # images[j]
    /\ \A k \in Live(batch.base) :
         (k - 1) \notin Range(batch.idx) => batch.base[k] \in Range(images)

\* the step is a run of the removal r (its placeholder write or its
\* replacement / deletion)
Acts(r) == r \in removals /\ r \notin removals'

\* while the slot a removal was started on is still in the collection (no
\* page-level fetch has replaced the collection, no removal of the same slot
\* has deleted it), each of its writes lands on that slot
OwnSlotOnly ==
  \A r \in removals :
    Acts(r) /\ r.id \notin displaced /\ r.slot \in Range(slotOf) =>
      r.index < Len(slotOf) /\ slotOf[r.index + 1] = r.slot

\* C3: every write of a removeImageAt call (placeholder, replacement,
\* deletion) lands on the slot the call was started on, also when another
\* removal has shrunk the collection in between.
C3_RemovalHitsOwnSlot == [][OwnSlotOnly]_vars

\* C4: once every started removeImageAt call has completed, the collection
\* holds no placeholder (stated for removals that overlap on one displayed
\* collection, with no page-level fetch in between).
C4_NoPlaceholderLeft ==
  removals = {} /\ batch # NoBatch =>
    \A i \in DOMAIN images : ~images[i].placeholder

\* the step is a replacement fetch resolving with an item, for a removal
\* started on the collection that is still displayed
ReplacementSucceeds ==
  /\ \E r \in removals :
       r.phase = "fetch" /\ removals' = removals \ {r} /\ r.id \notin displaced
  /\ last'.out = "item"

\* the step is the completion of a removal whose collection has been replaced
DisplacedCompletes ==
  \E r \in removals : removals' = removals \ {r} /\ r.id \in displaced

CursorStep ==
  IF (\E f \in fetches : Resolves(f)) \/ DisplacedCompletes
    THEN TRUE
    ELSE IF ReplacementSucceeds
      THEN nextFetchPage' = nextFetchPage + 1
      ELSE nextFetchPage' = nextFetchPage

\* C5: between two resets nextFetchPage changes only when a replacement
\* fetch succeeds with an item, and each such success advances it by exactly
\* one (so it never decreases), also when replacement fetches overlap
\* (stated for the removals of the collection on display; the resets and the
\* removals that outlive their collection are left unconstrained).
C5_CursorAdvancesByOne == [][CursorStep]_vars

\* with every page-level fetch resolved, and no removal ever started, the
\* cursor is the displayed page + 1
CursorReset == fetches = {} /\ nRemovals = 0 => nextFetchPage = page + 1

\* a replacement request is sent for an overflow page past the displayed one
IssuesPastPage ==
  \A r \in removals :
    r.phase = "delay" /\ Acts(r) => nextFetchPage >= page + 1

\* C6: whenever the displayed page or the query changes the cursor is reset
\* to page + 1, whatever the outcome of the page fetch, and no replacement
\* fetch issued after the change uses a cursor left from the previous page.
C6_CursorResetOnChange == []CursorReset /\ [][IssuesPastPage]_vars

\* C7: a page-level fetch that fails leaves error set and the collection
\* empty; one that succeeds leaves error null, so that the error state is
\* that of the fetch that resolved last.
C7_ErrorOfLastFetch ==
  last.op = "fetch" =>
    IF last.out = "ok" THEN error = None
    ELSE error # None /\ images = <<>>

\* C8: an empty query clears the collection and sends nothing; no page
\* fetch and no replacement fetch is ever sent with an empty query.
C8_NoEmptyQuerySent ==
  /\ last.op = "setQuery" /\ searchQuery = "" => images = <<>>
  /\ \A f \in fetches : f.query # ""
  /\ \A r \in removals : r.phase = "fetch" => r.query # ""

\* what a call of nextPage or prevPage on `page` emitted (last' is the call)
NavEmits ==
  last'.op \in {"nextPage", "prevPage"} =>
    /\ last'.out = "emit" =>
         /\ last'.n \in 1..MaxPage
         /\ last'.n = page + 1 \/ last'.n = page - 1
    /\ last'.op = "nextPage" /\ page = MaxPage => last'.out = ""
    /\ last'.op = "prevPage" /\ page = 1 => last'.out = ""
    /\ last'.op = "nextPage" /\ page # MaxPage => last'.out = "emit"
    /\ last'.op = "prevPage" /\ page # 1 => last'.out = "emit"

\* C9: from a page in 1..10, every update:page value that nextPage and
\* prevPage emit is in 1..10 and one away from the current page; nextPage
\* at page 10 and prevPage at page 1 emit nothing.
C9_NavigationStaysInRange ==
  [](page \in 1..MaxPage) /\ [][NavEmits]_vars

\* nextPage was called on the last page, after the props had changed at
\* least once, and emitted nothing
C9_Witness ==
  last = Step("nextPage", "", 0) /\ page = MaxPage /\ nChanges > 0

\* C10: forward navigation is disabled exactly when the page-level fetch
\* that filled the grid returned fewer than perPage items.
C10_ForwardDisabledIffShortPage ==
  GridVisible => (NextDisabled <=> returned < perPage)

\* the exports that have left their loop (zip is complete, generateAsync is
\* running)
Generating == {e \in exports : e.phase = "generate"}

\* C11: an export requested on N live items, of which k fail to load or
\* decode, writes exactly N - k archive entries, no item twice, also when
\* removals or replacements change the collection between export batches.
C11_OneEntryPerTranscodedItem ==
  \A e \in Generating :
    /\ Len(e.entries) = Cardinality(Live(e.base)) - e.failed
    /\ \A m, n \in DOMAIN e.entries :
         m # n => e.entries[m].item # e.entries[n].item

\* the image loads of the export e that have not settled
InFlight(e) == {k \in DOMAIN e.out : e.out[k] = "pending"}

RECURSIVE LoadsInFlight(_)
\* the number of image loads in flight over the exports es
LoadsInFlight(es) ==
  IF es = {} THEN 0
  ELSE LET e == CHOOSE x \in es : TRUE
       IN  Cardinality(InFlight(e)) + LoadsInFlight(es \ {e})

\* C12: at every moment at most `concurrency` image loads are in flight,
\* for any sequence of export requests, including a second request made
\* while an earlier export is running.
C12_AtMostOneBatchInFlight == LoadsInFlight(exports) <= concurrency

\* a step in which an item of a running batch fails to load or decode leaves
\* error as it is and the export running
FailureIsSwallowed ==
  \A e \in exports :
    e \notin exports' /\ last' = Step("export", "failed", 0) =>
      error' = error /\ e.id \in Ids(exports')

\* no step of an export sets an error, except the catch of downloadZip when
\* generateAsync or the save throws
ErrorOnlyFromGenerate ==
  last'.op = "export" /\ error' # error =>
    error' = None \/ last'.out = "thrown"

Running(id) == id \in Ids(exports)

Finished(id) ==
  \/ saved.id = id /\ last = Step("export", "saved", id)
  \/ last = Step("export", "thrown", id)

\* C13: a load or decode failure of any subset of the items never aborts an
\* export and never sets error, and every export that was started reaches
\* archive generation and, generateAsync resolving, the file save, provided
\* every image load settles.
C13_FailuresNeverAbort ==
  /\ [][FailureIsSwallowed /\ ErrorOnlyFromGenerate]_vars
  /\ \A id \in 1..MaxExports :
       /\ Running(id) ~> (\E e \in Generating : e.id = id)
       /\ Running(id) ~> Finished(id)

\* an archive was saved for an export of a full page on which every load
\* failed
C13_Witness ==
  /\ saved.id > 0
  /\ saved.failed = perPage
  /\ saved.entries = <<>>
  /\ last = Step("export", "saved", saved.id)

\* C14: for a source image of width w >= 1 and height h >= 1 the crop is
\* side = min(w, h), sx = floor((w - side) / 2), sy = floor((h - side) / 2);
\* so sx >= 0, sy >= 0, sx + side <= w, sy + side <= h, one of sx and sy is
\* 0, and the margins on opposite sides differ by at most 1.  For 800 by 600:
\* side = 600, sx = 100, sy = 0.
C14_CenterCrop ==
  drawn # NoDraw =>
    LET w == drawn.iw
        h == drawn.ih
        side == drawn.side
        sx == drawn.sx
        sy == drawn.sy
    IN  /\ side <= w /\ side <= h /\ (side = w \/ side = h)
        /\ 2 * sx <= w - side /\ w - side < 2 * sx + 2
        /\ 2 * sy <= h - side /\ h - side < 2 * sy + 2
        /\ sx >= 0 /\ sy >= 0
        /\ sx + side <= w /\ sy + side <= h
        /\ sx = 0 \/ sy = 0
        /\ (w - side - sx) - sx \in {0, 1}
        /\ (h - side - sy) - sy \in {0, 1}
        /\ w = 800 /\ h = 600 => side = 600 /\ sx = 100 /\ sy = 0

\* an image of 800 by 600 was drawn
C14_Witness == drawn.iw = 800 /\ drawn.ih = 600 /\ last = Step("export", "draw", 0)

\* C15: the entry of the item at display position p (0-based) of the page
\* displayed when the export was requested is named with that page number
\* and the index p + 1; distinct items get distinct names; the page number
\* of every entry name is the one of the folder and archive name, also when
\* the displayed page changes while the export is running.
C15_EntryNamedByPageAndPosition ==
  \A e \in exports :
    \A n \in DOMAIN e.entries :
      /\ e.entries[n].page = e.page
      /\ e.entries[n].index \in DOMAIN e.base
      /\ e.base[e.entries[n].index] = e.entries[n].item
      /\ \A m \in DOMAIN e.entries :
           m # n => <<e.entries[m].page, e.entries[m].index>>
                      # <<e.entries[n].page, e.entries[n].index>>

\* C16: an export hands only live slots to the transcoder: no load is ever
\* started for a placeholder slot that is awaiting its replacement.
C16_NoLoadOfPlaceholder ==
  \A e \in exports :
    \A k \in DOMAIN e.items : ~e.items[k].placeholder

\* the step is the end of the removal r with a replacement fetch that gave
\* no item (no result, provider error body, non-OK status, or a throw)
ReplacementFails(r) ==
  /\ r \in removals
  /\ r.phase = "fetch"
  /\ removals' = removals \ {r}
  /\ last' = Step("remove", "missing", 0)

\* C17: a replacement fetch that fails leaves error and loading unchanged,
\* and its only effect on the collection is the removal of one slot (stated
\* for the removals of the collection on display).
FailedReplacementFrame ==
  \A r \in removals :
    ReplacementFails(r) /\ r.id \notin displaced =>
      /\ error' = error
      /\ loading' = loading
      /\ total' = total
      /\ Len(images') = Len(images) - 1
      /\ \E i \in DOMAIN images : images' = Splice(images, i - 1, 1, <<>>)

C17_FailedReplacementRemovesOneSlot == [][FailedReplacementFrame]_vars

\* C18: a removeImageAt call started before the collection was replaced by a
\* page-level fetch (query or page change) modifies neither the new
\* collection, nor the new total, nor the reset cursor when its delay or its
\* replacement fetch completes afterwards (returned > 0: the collection on
\* display is the result of a page-level fetch).
StaleRemovalInert ==
  \A r \in removals :
    Acts(r) /\ r.id \in displaced /\ returned > 0 =>
      images' = images /\ total' = total /\ nextFetchPage' = nextFetchPage

C18_StaleRemovalDiscarded == [][StaleRemovalInert]_vars

\* C19: the provider returning at most perPage items for a page, the
\* collection never holds more than perPage slots, for any interleaving of
\* page fetches and removeImageAt calls (also with a captured index past the
\* end of a collection that has shrunk, and with repeated removals of one
\* index).
C19_AtMostPerPageSlots == Len(images) <= perPage

\* a write of a removal landed past the end of a collection that had shrunk
\* (the slot it made is one no page-level fetch delivered) and filled the
\* collection up to perPage again
C19_Witness ==
  /\ Len(images) = perPage
  /\ \E i \in DOMAIN slotOf : slotOf[i] < 0
  /\ last.op = "remove"

\* C20: loading is true in every state in which a page-level fetch is in
\* flight and false once none is: the completion of the earlier of two
\* overlapping fetches does not clear loading while the later is pending.
C20_LoadingWhileFetching == loading <=> fetches # {}

====
